---- MODULE Spec2Model ----
(***************************************************************************)
(* Model of src/q65-cart-removals/solution-2-python/Solution.py:           *)
(* the treap multiset (_Node, _Treap) with subtree size/sum aggregates,    *)
(* its budget query max_count_within_sum, and the driver                   *)
(* CartRemovalsWithinBudget.getMinRemovalsWithinBudget.                    *)
(*                                                                         *)
(* A _Node object is a record; None is Nil.  The code never aliases a      *)
(* node (every child link is owned by one parent), so the in-place         *)
(* mutations of _split_le/_merge are modelled as record updates.           *)
(* random.Random.randint is a nondeterministic draw from Prios.            *)
(***************************************************************************)
EXTENDS Integers, Sequences, FiniteSets, TLC

VARIABLES root,      \* _Treap._root
          rndDraws,  \* number of values drawn from _Treap._rnd so far
          nInserts,  \* history: number of _Treap.insert calls made
          inserted,  \* history: key -> number of times insert(key) was called
          q,         \* the running max_count_within_sum call (locals + position)
          d,         \* the running getMinRemovalsWithinBudget call
          rootB,     \* a second, independent _Treap (pair specification)
          insertedB  \* history of the second treap

vars == <<root, rndDraws, nInserts, inserted, q, d, rootB, insertedB>>

----------------------------------------------------------------------------
(* Bounds of the model *)

MaxKey == 2        \* keys are drawn from -NegKeys .. MaxKey
NegKeys == 1
MaxPrio == 2       \* priorities are drawn from 1 .. MaxPrio
MaxInserts == 3    \* insert calls per treap
MaxBudget == 3     \* driver budgets are drawn from 0 .. MaxBudget
MaxCalls == 2      \* getMinRemovalsWithinBudget calls per instance
MaxCap == 4        \* query capacities are drawn from -NegCap .. MaxCap
NegCap == 1

Keys == (0 - NegKeys)..MaxKey
Prios == 1..MaxPrio
Caps == (0 - NegCap)..MaxCap
Budgets == 0..MaxBudget
ItemValues == 1..MaxKey   \* cart item prices are positive (docstring constraints)

\* all sequences over S of length at most n
RECURSIVE SeqsUpTo(_, _)
SeqsUpTo(S, n) ==
    IF n = 0 THEN {<<>>}
    ELSE LET shorter == SeqsUpTo(S, n - 1)
         IN shorter \cup {Append(sq, x) : sq \in shorter, x \in S}

----------------------------------------------------------------------------
(* _Node *)

Nil == [nil |-> TRUE]

_Node(key, prio) ==
    [key |-> key, prio |-> prio, cnt |-> 1, size |-> 1, sum |-> key,
     left |-> Nil, right |-> Nil]

\* recalc that counts the node once instead of cnt times
recalc_CountsOnce(self) ==
    LET left_size == IF self.left # Nil THEN self.left.size ELSE 0
        right_size == IF self.right # Nil THEN self.right.size ELSE 0
        left_sum == IF self.left # Nil THEN self.left.sum ELSE 0
        right_sum == IF self.right # Nil THEN self.right.sum ELSE 0
    IN [self EXCEPT !.size = left_size + 1 + right_size,
                    !.sum = left_sum + self.key + right_sum]

recalc(self) ==
    LET left_size == IF self.left # Nil THEN self.left.size ELSE 0
        right_size == IF self.right # Nil THEN self.right.size ELSE 0
        left_sum == IF self.left # Nil THEN self.left.sum ELSE 0
        right_sum == IF self.right # Nil THEN self.right.sum ELSE 0
    IN [self EXCEPT !.size = left_size + self.cnt + right_size,
                    !.sum = left_sum + self.key * self.cnt + right_sum]

----------------------------------------------------------------------------
(* _Treap._split_le, _Treap._merge, _Treap.insert *)

\* _split_le that tests node.key < key: an equal key goes to the right part
RECURSIVE _split_le_Strict(_, _)
_split_le_Strict(node, key) ==
    IF node = Nil THEN <<Nil, Nil>>
    ELSE IF node.key < key
         THEN LET ab == _split_le_Strict(node.right, key)
              IN <<recalc([node EXCEPT !.right = ab[1]]), ab[2]>>
         ELSE LET ab == _split_le_Strict(node.left, key)
              IN <<ab[1], recalc([node EXCEPT !.left = ab[2]])>>

\* _split_le that relinks the nodes on its way back without calling recalc
RECURSIVE _split_le_NoRecalc(_, _)
_split_le_NoRecalc(node, key) ==
    IF node = Nil THEN <<Nil, Nil>>
    ELSE IF node.key <= key
         THEN LET ab == _split_le_NoRecalc(node.right, key)
              IN <<[node EXCEPT !.right = ab[1]], ab[2]>>
         ELSE LET ab == _split_le_NoRecalc(node.left, key)
              IN <<ab[1], [node EXCEPT !.left = ab[2]]>>

RECURSIVE _split_le(_, _)
_split_le(node, key) ==
    IF node = Nil THEN <<Nil, Nil>>
    ELSE IF node.key <= key
         THEN LET ab == _split_le(node.right, key)
              IN <<recalc([node EXCEPT !.right = ab[1]]), ab[2]>>
         ELSE LET ab == _split_le(node.left, key)
              IN <<ab[1], recalc([node EXCEPT !.left = ab[2]])>>

\* _merge whose second branch passes its arguments in the wrong order
RECURSIVE _merge_Swapped(_, _)
_merge_Swapped(a, b) ==
    IF a = Nil THEN b
    ELSE IF b = Nil THEN a
    ELSE IF a.prio > b.prio
         THEN recalc([a EXCEPT !.right = _merge_Swapped(a.right, b)])
         ELSE recalc([b EXCEPT !.left = _merge_Swapped(b.left, a)])

\* _merge that puts the root of smaller priority on top
RECURSIVE _merge_MinHeap(_, _)
_merge_MinHeap(a, b) ==
    IF a = Nil THEN b
    ELSE IF b = Nil THEN a
    ELSE IF a.prio < b.prio
         THEN recalc([a EXCEPT !.right = _merge_MinHeap(a.right, b)])
         ELSE recalc([b EXCEPT !.left = _merge_MinHeap(a, b.left)])

RECURSIVE _merge(_, _)
_merge(a, b) ==
    IF a = Nil THEN b
    ELSE IF b = Nil THEN a
    ELSE IF a.prio > b.prio
         THEN recalc([a EXCEPT !.right = _merge(a.right, b)])
         ELSE recalc([b EXCEPT !.left = _merge(a, b.left)])

\* insert that increments cnt of an existing node without calling recalc on it
insert_NoRecalc(t, key, prio) ==
    LET lr == _split_le(t, key)
        le == _split_le(lr[1], key - 1)
        ll == le[1]
        eq == IF le[2] = Nil
              THEN _Node(key, prio)
              ELSE [le[2] EXCEPT !.cnt = le[2].cnt + 1]
    IN _merge(_merge(ll, eq), lr[2])

\* insert that silently ignores a key that is not positive
insert_SkipNonPositive(t, key, prio) ==
    IF key <= 0 THEN t
    ELSE
    LET lr == _split_le(t, key)
        le == _split_le(lr[1], key - 1)
        ll == le[1]
        eq == IF le[2] = Nil
              THEN _Node(key, prio)
              ELSE recalc([le[2] EXCEPT !.cnt = le[2].cnt + 1])
    IN _merge(_merge(ll, eq), lr[2])

\* insert that puts a fresh node in place of an existing one
insert_FreshAlways(t, key, prio) ==
    LET lr == _split_le(t, key)
        le == _split_le(lr[1], key - 1)
        ll == le[1]
        eq == _Node(key, prio)
    IN _merge(_merge(ll, eq), lr[2])

\* insert whose second split is at key instead of key - 1
insert_SplitSameKey(t, key, prio) ==
    LET lr == _split_le(t, key)
        le == _split_le(lr[1], key)
        ll == le[1]
        eq == IF le[2] = Nil
              THEN _Node(key, prio)
              ELSE recalc([le[2] EXCEPT !.cnt = le[2].cnt + 1])
    IN _merge(_merge(ll, eq), lr[2])

\* the new root after insert(key) when randint would return prio
insert(t, key, prio) ==
    LET lr == _split_le(t, key)
        le == _split_le(lr[1], key - 1)
        ll == le[1]
        eq == IF le[2] = Nil
              THEN _Node(key, prio)
              ELSE recalc([le[2] EXCEPT !.cnt = le[2].cnt + 1])
    IN _merge(_merge(ll, eq), lr[2])

\* whether insert(key) draws from the generator (only when key is absent)
insertDraws(t, key) == _split_le(_split_le(t, key)[1], key - 1)[2] = Nil

----------------------------------------------------------------------------
(* _Treap.max_count_within_sum *)

\* entry that clamps a negative cap to 0
QueryEntry_Clamped(t, cap) ==
    [pc |-> "loop", cur |-> t, kept |-> 0, remaining |-> IF cap < 0 THEN 0 ELSE cap]

\* the locals of a call at the head of the while loop
QueryEntry(t, cap) == [pc |-> "loop", cur |-> t, kept |-> 0, remaining |-> cap]

\* loop body that forgets to charge the left subtree's sum to remaining
QueryLoop_KeepsBudget(s) ==
    IF s.cur = Nil THEN [s EXCEPT !.pc = "return"]
    ELSE
    LET cur == s.cur
        left_sum == IF cur.left # Nil THEN cur.left.sum ELSE 0
        left_size == IF cur.left # Nil THEN cur.left.size ELSE 0
        remaining1 == s.remaining
        kept1 == s.kept + left_size
        can_take == remaining1 \div cur.key
        take == IF can_take < cur.cnt THEN can_take ELSE cur.cnt
    IN IF left_sum > s.remaining
       THEN [s EXCEPT !.cur = cur.left]
       ELSE IF cur.key <= 0
       THEN [s EXCEPT !.remaining = remaining1, !.kept = kept1, !.pc = "return"]
       ELSE IF can_take <= 0
       THEN [s EXCEPT !.remaining = remaining1, !.kept = kept1, !.pc = "return"]
       ELSE IF take < cur.cnt
       THEN [s EXCEPT !.remaining = remaining1 - take * cur.key,
                      !.kept = kept1 + take, !.pc = "return"]
       ELSE [s EXCEPT !.remaining = remaining1 - take * cur.key,
                      !.kept = kept1 + take, !.cur = cur.right]

\* loop body that adds left_size to kept before the left-subtree test
QueryLoop_EagerKept(s) ==
    IF s.cur = Nil THEN [s EXCEPT !.pc = "return"]
    ELSE
    LET cur == s.cur
        left_sum == IF cur.left # Nil THEN cur.left.sum ELSE 0
        left_size == IF cur.left # Nil THEN cur.left.size ELSE 0
        remaining1 == s.remaining - left_sum
        kept1 == s.kept + left_size
        can_take == remaining1 \div cur.key
        take == IF can_take < cur.cnt THEN can_take ELSE cur.cnt
    IN IF left_sum > s.remaining
       THEN [s EXCEPT !.cur = cur.left, !.kept = kept1]
       ELSE IF cur.key <= 0
       THEN [s EXCEPT !.remaining = remaining1, !.kept = kept1, !.pc = "return"]
       ELSE IF can_take <= 0
       THEN [s EXCEPT !.remaining = remaining1, !.kept = kept1, !.pc = "return"]
       ELSE IF take < cur.cnt
       THEN [s EXCEPT !.remaining = remaining1 - take * cur.key,
                      !.kept = kept1 + take, !.pc = "return"]
       ELSE [s EXCEPT !.remaining = remaining1 - take * cur.key,
                      !.kept = kept1 + take, !.cur = cur.right]

\* loop body whose left-subtree test is left_sum >= remaining
QueryLoop_StrictLeft(s) ==
    IF s.cur = Nil THEN [s EXCEPT !.pc = "return"]
    ELSE
    LET cur == s.cur
        left_sum == IF cur.left # Nil THEN cur.left.sum ELSE 0
        left_size == IF cur.left # Nil THEN cur.left.size ELSE 0
        remaining1 == s.remaining - left_sum
        kept1 == s.kept + left_size
        can_take == remaining1 \div cur.key
        take == IF can_take < cur.cnt THEN can_take ELSE cur.cnt
    IN IF left_sum >= s.remaining
       THEN [s EXCEPT !.cur = cur.left]
       ELSE IF cur.key <= 0
       THEN [s EXCEPT !.remaining = remaining1, !.kept = kept1, !.pc = "return"]
       ELSE IF can_take <= 0
       THEN [s EXCEPT !.remaining = remaining1, !.kept = kept1, !.pc = "return"]
       ELSE IF take < cur.cnt
       THEN [s EXCEPT !.remaining = remaining1 - take * cur.key,
                      !.kept = kept1 + take, !.pc = "return"]
       ELSE [s EXCEPT !.remaining = remaining1 - take * cur.key,
                      !.kept = kept1 + take, !.cur = cur.right]

\* loop body whose left branch continues without moving cur
QueryLoop_StaysPut(s) ==
    IF s.cur = Nil THEN [s EXCEPT !.pc = "return"]
    ELSE
    LET cur == s.cur
        left_sum == IF cur.left # Nil THEN cur.left.sum ELSE 0
        left_size == IF cur.left # Nil THEN cur.left.size ELSE 0
        remaining1 == s.remaining - left_sum
        kept1 == s.kept + left_size
        can_take == remaining1 \div cur.key
        take == IF can_take < cur.cnt THEN can_take ELSE cur.cnt
    IN IF left_sum > s.remaining
       THEN s
       ELSE IF cur.key <= 0
       THEN [s EXCEPT !.remaining = remaining1, !.kept = kept1, !.pc = "return"]
       ELSE IF can_take <= 0
       THEN [s EXCEPT !.remaining = remaining1, !.kept = kept1, !.pc = "return"]
       ELSE IF take < cur.cnt
       THEN [s EXCEPT !.remaining = remaining1 - take * cur.key,
                      !.kept = kept1 + take, !.pc = "return"]
       ELSE [s EXCEPT !.remaining = remaining1 - take * cur.key,
                      !.kept = kept1 + take, !.cur = cur.right]

\* loop body that assigns left_size to kept instead of adding it
QueryLoop_KeptAssigned(s) ==
    IF s.cur = Nil THEN [s EXCEPT !.pc = "return"]
    ELSE
    LET cur == s.cur
        left_sum == IF cur.left # Nil THEN cur.left.sum ELSE 0
        left_size == IF cur.left # Nil THEN cur.left.size ELSE 0
        remaining1 == s.remaining - left_sum
        kept1 == left_size
        can_take == remaining1 \div cur.key
        take == IF can_take < cur.cnt THEN can_take ELSE cur.cnt
    IN IF left_sum > s.remaining
       THEN [s EXCEPT !.cur = cur.left]
       ELSE IF cur.key <= 0
       THEN [s EXCEPT !.remaining = remaining1, !.kept = kept1, !.pc = "return"]
       ELSE IF can_take <= 0
       THEN [s EXCEPT !.remaining = remaining1, !.kept = kept1, !.pc = "return"]
       ELSE IF take < cur.cnt
       THEN [s EXCEPT !.remaining = remaining1 - take * cur.key,
                      !.kept = kept1 + take, !.pc = "return"]
       ELSE [s EXCEPT !.remaining = remaining1 - take * cur.key,
                      !.kept = kept1 + take, !.cur = cur.right]

\* loop body that goes on into the right subtree after a partial take
QueryLoop_NoBreak(s) ==
    IF s.cur = Nil THEN [s EXCEPT !.pc = "return"]
    ELSE
    LET cur == s.cur
        left_sum == IF cur.left # Nil THEN cur.left.sum ELSE 0
        left_size == IF cur.left # Nil THEN cur.left.size ELSE 0
        remaining1 == s.remaining - left_sum
        kept1 == s.kept + left_size
        can_take == remaining1 \div cur.key
        take == IF can_take < cur.cnt THEN can_take ELSE cur.cnt
    IN IF left_sum > s.remaining
       THEN [s EXCEPT !.cur = cur.left]
       ELSE IF cur.key <= 0
       THEN [s EXCEPT !.remaining = remaining1, !.kept = kept1, !.pc = "return"]
       ELSE IF can_take <= 0
       THEN [s EXCEPT !.remaining = remaining1, !.kept = kept1, !.pc = "return"]
       ELSE IF take < cur.cnt
       THEN [s EXCEPT !.remaining = remaining1 - take * cur.key,
                      !.kept = kept1 + take, !.cur = cur.right]
       ELSE [s EXCEPT !.remaining = remaining1 - take * cur.key,
                      !.kept = kept1 + take, !.cur = cur.right]

\* one evaluation of the loop test followed by one pass through the loop body
QueryLoop(s) ==
    IF s.cur = Nil THEN [s EXCEPT !.pc = "return"]
    ELSE
    LET cur == s.cur
        left_sum == IF cur.left # Nil THEN cur.left.sum ELSE 0
        left_size == IF cur.left # Nil THEN cur.left.size ELSE 0
        remaining1 == s.remaining - left_sum
        kept1 == s.kept + left_size
        can_take == remaining1 \div cur.key
        take == IF can_take < cur.cnt THEN can_take ELSE cur.cnt
    IN IF left_sum > s.remaining
       THEN [s EXCEPT !.cur = cur.left]
       ELSE IF cur.key <= 0
       THEN [s EXCEPT !.remaining = remaining1, !.kept = kept1, !.pc = "return"]
       ELSE IF can_take <= 0
       THEN [s EXCEPT !.remaining = remaining1, !.kept = kept1, !.pc = "return"]
       ELSE IF take < cur.cnt
       THEN [s EXCEPT !.remaining = remaining1 - take * cur.key,
                      !.kept = kept1 + take, !.pc = "return"]
       ELSE [s EXCEPT !.remaining = remaining1 - take * cur.key,
                      !.kept = kept1 + take, !.cur = cur.right]

RECURSIVE QueryRun(_)
QueryRun(s) == IF s.pc = "return" THEN s ELSE QueryRun(QueryLoop(s))

\* query that returns remaining instead of kept
max_count_within_sum_ReturnsRemaining(t, cap) ==
    QueryRun(QueryEntry(t, cap)).remaining

max_count_within_sum(t, cap) == QueryRun(QueryEntry(t, cap)).kept

----------------------------------------------------------------------------
(* The treap as a state machine: insert calls and step-wise queries *)

QIdle == [pc |-> "idle", cur |-> Nil, kept |-> 0, remaining |-> 0,
          cap |-> 0, path |-> <<>>, result |-> 0]

DIdle == [pc |-> "idle", budget |-> 0, cartItems |-> <<>>, i |-> 0,
          ans |-> <<>>, calls |-> 0]

Init ==
    /\ root = Nil
    /\ rndDraws = 0
    /\ nInserts = 0
    /\ inserted = [k \in Keys |-> 0]
    /\ q = QIdle
    /\ d = DIdle
    /\ rootB = Nil
    /\ insertedB = [k \in Keys |-> 0]

\* _Treap.insert(key); prio is the value randint returns if it is called
Insert(key, prio) ==
    /\ q.pc = "idle"
    /\ nInserts < MaxInserts
    /\ root' = insert(root, key, prio)
    /\ rndDraws' = IF insertDraws(root, key) THEN rndDraws + 1 ELSE rndDraws
    /\ nInserts' = nInserts + 1
    /\ inserted' = [inserted EXCEPT ![key] = @ + 1]
    /\ q' = QIdle
    /\ UNCHANGED <<d, rootB, insertedB>>

\* max_count_within_sum(cap) is entered: lines 89-91
QueryStart(cap) ==
    /\ q.pc = "idle"
    /\ LET s == QueryEntry(root, cap)
       IN q' = [pc |-> "loop", cur |-> s.cur, kept |-> s.kept,
                remaining |-> s.remaining, cap |-> cap, path |-> <<>>,
                result |-> 0]
    /\ UNCHANGED <<root, rndDraws, nInserts, inserted, d, rootB, insertedB>>

\* a loop iteration that also draws a value from the generator
QueryStep_DrawsRandom ==
    /\ q.pc = "loop"
    /\ LET s == QueryLoop([pc |-> "loop", cur |-> q.cur, kept |-> q.kept,
                           remaining |-> q.remaining])
       IN q' = [q EXCEPT !.pc = s.pc, !.cur = s.cur, !.kept = s.kept,
                         !.remaining = s.remaining,
                         !.path = IF q.cur = Nil THEN @ ELSE Append(@, q.cur.key)]
    /\ rndDraws' = rndDraws + 1
    /\ UNCHANGED <<root, nInserts, inserted, d, rootB, insertedB>>

\* one loop iteration: lines 93-121
QueryStep ==
    /\ q.pc = "loop"
    /\ LET s == QueryLoop([pc |-> "loop", cur |-> q.cur, kept |-> q.kept,
                           remaining |-> q.remaining])
       IN q' = [q EXCEPT !.pc = s.pc, !.cur = s.cur, !.kept = s.kept,
                         !.remaining = s.remaining,
                         !.path = IF q.cur = Nil THEN @ ELSE Append(@, q.cur.key)]
    /\ UNCHANGED <<root, rndDraws, nInserts, inserted, d, rootB, insertedB>>

\* return kept: line 123; the call is over
QueryReturn ==
    /\ q.pc = "return"
    /\ q' = [QIdle EXCEPT !.result = q.kept, !.cap = q.cap]
    /\ UNCHANGED <<root, rndDraws, nInserts, inserted, d, rootB, insertedB>>

Next ==
    \/ \E key \in Keys, prio \in Prios : Insert(key, prio)
    \/ \E cap \in Caps : QueryStart(cap)
    \/ QueryStep
    \/ QueryReturn

Spec == Init /\ [][Next]_vars

\* the treap under insert calls alone (no query is ever in progress)
NextInsert == \E key \in Keys, prio \in Prios : Insert(key, prio)

SpecInsert == Init /\ [][NextInsert]_vars

\* a call that has been entered keeps running: single-threaded and
\* synchronous, nothing suspends the loop or the return
SpecLive == Spec /\ WF_vars(QueryStep) /\ WF_vars(QueryReturn)

----------------------------------------------------------------------------
(* CartRemovalsWithinBudget.getMinRemovalsWithinBudget, one instance *)

\* the call is entered with its arguments: line 26
DriverCall(budget, cartItems) ==
    /\ d.pc = "idle"
    /\ d.calls < MaxCalls
    /\ nInserts + Len(cartItems) <= MaxInserts
    /\ d' = [pc |-> "loop", budget |-> budget, cartItems |-> cartItems,
             i |-> 0, ans |-> <<>>, calls |-> d.calls + 1]
    /\ UNCHANGED <<root, rndDraws, nInserts, inserted, q, rootB, insertedB>>

\* the answer step with the capacity taken to be the whole budget
DriverAnswer_FullBudget ==
    /\ d.pc = "loop"
    /\ d.i < Len(d.cartItems)
    /\ LET v == d.cartItems[d.i + 1]
           cap == d.budget
           kept_from_prev == max_count_within_sum(root, cap)
       IN d' = [d EXCEPT !.pc = "insert",
                         !.ans = IF cap < 0 THEN Append(@, d.i)
                                 ELSE Append(@, d.i - kept_from_prev)]
    /\ UNCHANGED <<root, rndDraws, nInserts, inserted, q, rootB, insertedB>>

\* the answer step whose defensive branch appends 0 instead of i
DriverAnswer_FallbackZero ==
    /\ d.pc = "loop"
    /\ d.i < Len(d.cartItems)
    /\ LET v == d.cartItems[d.i + 1]
           cap == d.budget - v
           kept_from_prev == max_count_within_sum(root, cap)
       IN d' = [d EXCEPT !.pc = "insert",
                         !.ans = IF cap < 0 THEN Append(@, 0)
                                 ELSE Append(@, d.i - kept_from_prev)]
    /\ UNCHANGED <<root, rndDraws, nInserts, inserted, q, rootB, insertedB>>

\* the answer for index i is appended: lines 28-36
DriverAnswer ==
    /\ d.pc = "loop"
    /\ d.i < Len(d.cartItems)
    /\ LET v == d.cartItems[d.i + 1]
           cap == d.budget - v
           kept_from_prev == max_count_within_sum(root, cap)
       IN d' = [d EXCEPT !.pc = "insert",
                         !.ans = IF cap < 0 THEN Append(@, d.i)
                                 ELSE Append(@, d.i - kept_from_prev)]
    /\ UNCHANGED <<root, rndDraws, nInserts, inserted, q, rootB, insertedB>>

\* item i goes into the treap and the loop moves on: line 38
DriverInsert(prio) ==
    /\ d.pc = "insert"
    /\ LET v == d.cartItems[d.i + 1]
       IN /\ root' = insert(root, v, prio)
          /\ rndDraws' = IF insertDraws(root, v) THEN rndDraws + 1 ELSE rndDraws
          /\ inserted' = [inserted EXCEPT ![v] = @ + 1]
    /\ nInserts' = nInserts + 1
    /\ d' = [d EXCEPT !.pc = "loop", !.i = d.i + 1]
    /\ UNCHANGED <<q, rootB, insertedB>>

\* whether the call stands at "return ans" (line 40) with the loop exhausted
AtReturn == d.pc = "loop" /\ d.i = Len(d.cartItems)

\* ans is handed to the caller and the call's locals are gone: line 40
DriverReturn ==
    /\ AtReturn
    /\ d' = [DIdle EXCEPT !.calls = d.calls]
    /\ UNCHANGED <<root, rndDraws, nInserts, inserted, q, rootB, insertedB>>

\* the lists a whole call can return when it runs on the treap t from index i
\* on, one for every choice of the priorities drawn on the way: lines 26-40
RECURSIVE CallResults(_, _, _, _, _)
CallResults(t, budget, cartItems, i, ans) ==
    IF i = Len(cartItems) THEN {ans}
    ELSE LET v == cartItems[i + 1]
             cap == budget - v
             entry == IF cap < 0 THEN i ELSE i - max_count_within_sum(t, cap)
         IN UNION {CallResults(insert(t, v, prio), budget, cartItems, i + 1,
                               Append(ans, entry)) : prio \in Prios}

\* the lists the call can return on a freshly constructed instance: lines 22-23
FreshCallResults(budget, cartItems) == CallResults(Nil, budget, cartItems, 0, <<>>)

NextDriver ==
    \/ \E budget \in Budgets, cartItems \in SeqsUpTo(ItemValues, MaxInserts) :
          DriverCall(budget, cartItems)
    \/ DriverAnswer
    \/ \E prio \in Prios : DriverInsert(prio)
    \/ DriverReturn

SpecDriver == Init /\ [][NextDriver]_vars

----------------------------------------------------------------------------
(* Two independent treaps, the second one fed keys the first one has seen *)

\* insert(key) on the second treap
InsertB(key, prio) ==
    /\ insertedB[key] < inserted[key]
    /\ rootB' = insert(rootB, key, prio)
    /\ insertedB' = [insertedB EXCEPT ![key] = @ + 1]
    /\ UNCHANGED <<root, rndDraws, nInserts, inserted, q, d>>

NextPair ==
    \/ \E key \in Keys, prio \in Prios : Insert(key, prio)
    \/ \E key \in Keys, prio \in Prios : InsertB(key, prio)

SpecPair == Init /\ [][NextPair]_vars

----------------------------------------------------------------------------
(* Observations of a tree and the sort-and-scan reference *)

\* every node object reachable from t
RECURSIVE Nodes(_)
Nodes(t) == IF t = Nil THEN {} ELSE {t} \cup Nodes(t.left) \cup Nodes(t.right)

SizeOf(t) == IF t = Nil THEN 0 ELSE t.size
SumOf(t) == IF t = Nil THEN 0 ELSE t.sum

\* number of occurrences of key k held by the tree t
RECURSIVE CountOf(_, _)
CountOf(t, k) ==
    IF t = Nil THEN 0
    ELSE (IF t.key = k THEN t.cnt ELSE 0) + CountOf(t.left, k) + CountOf(t.right, k)

MultisetOf(t) == [k \in Keys |-> CountOf(t, k)]

RECURSIVE Repeat(_, _)
Repeat(k, n) == IF n = 0 THEN <<>> ELSE <<k>> \o Repeat(k, n - 1)

\* the elements of the multiset ms with keys >= k, in ascending order
RECURSIVE AscendingFrom(_, _)
AscendingFrom(ms, k) ==
    IF k \notin DOMAIN ms THEN <<>>
    ELSE Repeat(k, ms[k]) \o AscendingFrom(ms, k + 1)

Ascending(ms) == AscendingFrom(ms, 0 - NegKeys)

RECURSIVE PrefixSum(_, _)
PrefixSum(seq, k) == IF k = 0 THEN 0 ELSE PrefixSum(seq, k - 1) + seq[k]

\* length of the longest prefix of seq whose sum is <= cap (0 when there is none)
LongestPrefix(seq, cap) ==
    LET fit == {k \in 0..Len(seq) : PrefixSum(seq, k) <= cap}
    IN IF fit = {} THEN 0 ELSE CHOOSE k \in fit : \A j \in fit : j <= k

\* the brute-force answer for the multiset ms
Reference(ms, cap) == LongestPrefix(Ascending(ms), cap)

\* the multiset of the entries of a sequence of keys
MsOfSeq(seq) == [k \in Keys |-> Cardinality({j \in 1..Len(seq) : seq[j] = k})]

RECURSIVE Height(_)
Height(t) ==
    IF t = Nil THEN 0
    ELSE 1 + (IF Height(t.left) >= Height(t.right) THEN Height(t.left)
              ELSE Height(t.right))

\* number of _split_le activations in the call _split_le(node, key)
RECURSIVE split_le_calls(_, _)
split_le_calls(node, key) ==
    IF node = Nil THEN 1
    ELSE IF node.key <= key THEN 1 + split_le_calls(node.right, key)
    ELSE 1 + split_le_calls(node.left, key)

\* number of _merge activations in the call _merge(a, b)
RECURSIVE merge_calls(_, _)
merge_calls(a, b) ==
    IF a = Nil \/ b = Nil THEN 1
    ELSE IF a.prio > b.prio THEN 1 + merge_calls(a.right, b)
    ELSE 1 + merge_calls(a, b.left)

\* whether the keys path[j..] are those of a downward path that starts at t
RECURSIVE IsPathFrom(_, _, _)
IsPathFrom(t, path, j) ==
    IF j > Len(path) THEN TRUE
    ELSE /\ t # Nil
         /\ t.key = path[j]
         /\ (IsPathFrom(t.left, path, j + 1) \/ IsPathFrom(t.right, path, j + 1))

\* BST order and both aggregate formulas in every node of t
Valid(t) ==
    \A n \in Nodes(t) :
        /\ \A m \in Nodes(n.left) : m.key < n.key
        /\ \A m \in Nodes(n.right) : n.key < m.key
        /\ n.size = SizeOf(n.left) + n.cnt + SizeOf(n.right)
        /\ n.sum = SumOf(n.left) + n.key * n.cnt + SumOf(n.right)

\* the subtrees of t, the empty tree included
Subtrees(t) == Nodes(t) \cup {Nil}

\* split boundaries: every key and one value below the smallest
Boundaries == ((0 - NegKeys) - 1) .. MaxKey

AllPositive(ms) == \A k \in DOMAIN ms : ms[k] > 0 => k > 0
AllNonNegative(ms) == \A k \in DOMAIN ms : ms[k] > 0 => k >= 0

----------------------------------------------------------------------------
(* Properties of the treap (specification Spec) *)

\* the value a finished or hypothetical query returns agrees with the reference
QueryAgrees(cap) == max_count_within_sum(root, cap) = Reference(inserted, cap)

\* C1: with strictly positive keys only, for every cap >= 0 the query returns
\* the largest k such that the k smallest elements sum to at most cap; a
\* step-wise call that has reached its return statement holds that value.
C1_GreedyExactPositive ==
    AllPositive(inserted) =>
        /\ \A cap \in 0..MaxCap : QueryAgrees(cap)
        /\ (q.pc = "return" /\ q.cap >= 0) => q.kept = Reference(inserted, q.cap)

C1_Witness ==
    /\ q.pc = "return" /\ q.cap >= 0
    /\ AllPositive(inserted)
    /\ nInserts >= 3
    /\ \E k \in Keys : inserted[k] >= 2
    /\ q.kept = 2

\* C2: with non-negative keys that include key 0, for every cap >= 0 the
\* query still returns the length of the longest ascending prefix whose sum
\* is at most cap (every copy of 0 is taken for free).
C2_ZeroKeysFree ==
    (AllNonNegative(inserted) /\ inserted[0] > 0) =>
        \A cap \in 0..MaxCap : QueryAgrees(cap)

\* C4: every node reachable from the root has size = left.size + cnt +
\* right.size and sum = left.sum + key * cnt + right.sum, 0 for a missing child.
C4_AggregatesExact ==
    \A n \in Nodes(root) :
        /\ n.size = SizeOf(n.left) + n.cnt + SizeOf(n.right)
        /\ n.sum = SumOf(n.left) + n.key * n.cnt + SumOf(n.right)

C4_Witness ==
    /\ nInserts >= 3
    /\ \E n \in Nodes(root) :
          n.cnt >= 2 /\ n.key # 0 /\ (n.left # Nil \/ n.right # Nil)

\* C5: the tree is a strict binary search tree: in every node all keys of the
\* left subtree are smaller and all keys of the right subtree are larger.
C5_StrictBST ==
    \A n \in Nodes(root) :
        /\ \A m \in Nodes(n.left) : m.key < n.key
        /\ \A m \in Nodes(n.right) : m.key > n.key

C5_Witness ==
    /\ Cardinality(Nodes(root)) >= 3
    /\ \E n \in Nodes(root) : n.left # Nil /\ n.left.right # Nil

\* C6: an insert call adds one occurrence of its key and changes the
\* multiplicity of no other key.
C6_InsertAddsOne ==
    [][nInserts' # nInserts =>
         \E key \in Keys :
            /\ inserted'[key] = inserted[key] + 1
            /\ CountOf(root', key) = CountOf(root, key) + 1
            /\ \A other \in Keys \ {key} :
                  CountOf(root', other) = CountOf(root, other)]_vars

C6_Witness ==
    /\ Cardinality(Nodes(root)) >= 2
    /\ \E n \in Nodes(root) : n.cnt >= 2 /\ (n.left # Nil \/ n.right # Nil)

\* C7: the size stored at the root is the number of insert calls made so far;
\* before the first insert there is no root.
C7_RootSizeCountsInserts ==
    IF root = Nil THEN nInserts = 0 ELSE root.size = nInserts

C7_Witness ==
    /\ root # Nil /\ root.size >= 3
    /\ root.cnt < root.size
    /\ \E n \in Nodes(root) : n.cnt >= 2

\* C8: with non-negative keys only (key 0 included), every negative cap
\* makes the query return 0.
C8_NegativeCapZero ==
    AllNonNegative(inserted) =>
        /\ \A cap \in Caps : cap < 0 => max_count_within_sum(root, cap) = 0
        /\ (q.pc = "return" /\ q.cap < 0) => q.kept = 0

C8_Witness ==
    /\ q.pc = "return" /\ q.cap < 0 /\ q.kept = 0
    /\ AllNonNegative(inserted) /\ inserted[0] > 0
    /\ Len(q.path) >= 2

\* C9: for the tree of any one state the query is non-decreasing in cap.
C9_MonotoneInCap ==
    LET result == [cap \in Caps |-> max_count_within_sum(root, cap)]
    IN \A c1 \in Caps, c2 \in Caps : c1 <= c2 => result[c1] <= result[c2]

C9_Witness ==
    /\ Cardinality(Nodes(root)) >= 3
    /\ LET result == [cap \in Caps |-> max_count_within_sum(root, cap)]
       IN \E c1 \in Caps, c2 \in Caps :
             c1 < c2 /\ 0 < result[c1] /\ result[c1] < result[c2]

\* C14: insert succeeds for every integer key, 0 and negative keys included:
\* a further call returns a tree for every key, every key inserted so far is
\* in the tree with its multiplicity, and the tree satisfies BST order and the
\* size/sum formulas.
C14_InsertAnyInteger ==
    /\ \A key \in Keys, prio \in Prios :
          CountOf(insert(root, key, prio), key) = inserted[key] + 1
    /\ \A key \in Keys : CountOf(root, key) = inserted[key]
    /\ \A n \in Nodes(root) :
          /\ \A m \in Nodes(n.left) : m.key < n.key
          /\ \A m \in Nodes(n.right) : n.key < m.key
          /\ n.size = SizeOf(n.left) + n.cnt + SizeOf(n.right)
          /\ n.sum = SumOf(n.left) + n.key * n.cnt + SumOf(n.right)

C14_Witness ==
    /\ inserted[0] >= 1
    /\ \E key \in Keys : key < 0 /\ inserted[key] >= 1
    /\ Cardinality(Nodes(root)) = 3
    /\ root.sum <= 0

\* C16: on an empty structure the query returns 0 for every cap, and a
\* step-wise call on it reaches its return with kept = 0 having visited no node.
C16_EmptyReturnsZero ==
    root = Nil =>
        /\ \A cap \in Caps : max_count_within_sum(root, cap) = 0
        /\ q.pc = "return" => (q.kept = 0 /\ q.path = <<>>)

C16_Witness ==
    /\ root = Nil /\ nInserts = 0
    /\ q.pc = "return" /\ q.cap > 0 /\ q.kept = 0

\* C18: every node of the tree has cnt >= 1, and its cnt is the number of
\* times its key has been inserted.
C18_CntCountsInsertions ==
    \A n \in Nodes(root) : n.cnt >= 1 /\ n.cnt = inserted[n.key]

C18_Witness ==
    /\ \E n \in Nodes(root) : n.cnt >= 2
    /\ \E n \in Nodes(root) : n.cnt = 1

\* C15: the budget comparison is inclusive.  With positive keys, the j
\* smallest elements are all counted when cap is exactly their sum and are not
\* all counted when cap is one less (a single key k gives 0 for cap = k - 1
\* and 1 for cap = k); and a loop step that finds left_sum = remaining takes
\* the left subtree whole instead of descending into it.
C15_InclusiveBudget ==
    /\ [](AllPositive(inserted) =>
            LET asc == Ascending(inserted)
            IN \A j \in 1..Len(asc) :
                  /\ max_count_within_sum(root, PrefixSum(asc, j)) >= j
                  /\ max_count_within_sum(root, PrefixSum(asc, j) - 1) < j)
    /\ [][(/\ q.pc = "loop" /\ q.cur # Nil
           /\ SumOf(q.cur.left) = q.remaining)
          => (/\ q'.kept >= q.kept + SizeOf(q.cur.left)
              /\ q'.cur \in {q.cur, q.cur.right})]_vars

C15_Witness ==
    /\ AllPositive(inserted)
    /\ q.pc = "return" /\ q.cap > 0 /\ q.remaining = 0
    /\ q.cur # Nil /\ q.cur.left # Nil
    /\ q.cap = q.cur.left.sum /\ q.kept = q.cur.left.size

\* C17: every call terminates.  A query iteration either stops or moves cur
\* to a child of cur, so the iterations made plus the height still below cur
\* never exceed the height of the tree, and a running query reaches its
\* return; the recursions of _split_le and _merge in an insert of any key are
\* at most one activation per level of the trees they are given.
C17_Terminates ==
    /\ [](q.pc = "loop" => Len(q.path) + Height(q.cur) <= Height(root))
    /\ [][(q.pc = "loop" /\ q'.pc = "loop")
          => (q.cur # Nil /\ q'.cur \in {q.cur.left, q.cur.right})]_vars
    /\ [](\A key \in Keys :
            LET lr == _split_le(root, key)
                le == _split_le(lr[1], key - 1)
                eq == IF le[2] = Nil THEN _Node(key, 1) ELSE le[2]
            IN /\ split_le_calls(root, key) <= Height(root) + 1
               /\ split_le_calls(lr[1], key - 1) <= Height(lr[1]) + 1
               /\ merge_calls(le[1], eq) <= Height(le[1]) + Height(eq) + 1
               /\ merge_calls(_merge(le[1], eq), lr[2])
                     <= Height(_merge(le[1], eq)) + Height(lr[2]) + 1)
    /\ (q.pc = "loop") ~> (q.pc = "return")

C17_Witness ==
    /\ q.pc = "return" /\ Len(q.path) = 2
    /\ Height(root) >= 2 /\ nInserts >= 3

\* C19: inserting a key that is already present creates no node and does not
\* make the tree higher; the number of nodes is always the number of distinct
\* keys inserted so far.
C19_DuplicatesAbsorbed ==
    /\ [](Cardinality(Nodes(root)) = Cardinality({k \in Keys : inserted[k] > 0}))
    /\ [][(\E k \in Keys : inserted[k] >= 1 /\ inserted'[k] = inserted[k] + 1)
          => (/\ Cardinality(Nodes(root')) = Cardinality(Nodes(root))
              /\ Height(root') <= Height(root))]_vars

C19_Witness ==
    /\ Height(root) >= 2
    /\ \E n \in Nodes(root) : n.cnt >= 2 /\ n # root

\* C23: insert(key) partitions the tree into ll with all keys < key, eq with
\* keys = key and right with all keys > key; eq is empty or one node without
\* children, so that cnt + 1 followed by recalc gives size = cnt and
\* sum = key * cnt; the result is the merge of ll, eq, right in this order.
C23_ThreeWayPartition ==
    \A key \in Keys :
        LET lr == _split_le(root, key)
            le == _split_le(lr[1], key - 1)
            ll == le[1]
            eq == le[2]
            right == lr[2]
            eq1 == IF eq = Nil THEN eq
                   ELSE recalc([eq EXCEPT !.cnt = eq.cnt + 1])
        IN /\ \A n \in Nodes(ll) : n.key < key
           /\ \A n \in Nodes(eq) : n.key = key
           /\ \A n \in Nodes(right) : n.key > key
           /\ eq = Nil \/ (eq.left = Nil /\ eq.right = Nil)
           /\ eq # Nil => /\ eq.cnt = inserted[key]
                          /\ eq1.size = eq1.cnt
                          /\ eq1.sum = key * eq1.cnt
           /\ \A k \in Keys : CountOf(ll, k) + CountOf(eq, k) + CountOf(right, k)
                                 = CountOf(root, k)
           /\ \A prio \in Prios :
                 insert(root, key, prio) =
                    _merge(_merge(ll, IF eq = Nil THEN _Node(key, prio) ELSE eq1),
                           right)

C23_Witness ==
    /\ Cardinality(Nodes(root)) = 3
    /\ root.left # Nil /\ root.right # Nil
    /\ root.cnt = 1 /\ root.key # 0

\* C24: _split_le(t, k) on a valid tree t returns (A, B) with every key of A
\* <= k and every key of B > k; A and B together hold the multiset of t, and
\* each satisfies BST order and the size/sum formulas.
C24_SplitCorrect ==
    \A t \in Subtrees(root), k \in Boundaries :
        LET ab == _split_le(t, k)
        IN /\ \A n \in Nodes(ab[1]) : n.key <= k
           /\ \A n \in Nodes(ab[2]) : n.key > k
           /\ \A key \in Keys :
                 CountOf(ab[1], key) + CountOf(ab[2], key) = CountOf(t, key)
           /\ Valid(ab[1]) /\ Valid(ab[2])

C24_Witness ==
    /\ Cardinality(Nodes(root)) = 3
    /\ \E k \in Boundaries :
          LET ab == _split_le(root, k)
          IN /\ ab[1] # Nil /\ ab[2] # Nil
             /\ ab[1] \notin Nodes(root) /\ ab[2] \notin Nodes(root)

\* C25: _merge(a, b) on valid trees with every key of a below every key of b
\* returns a valid tree holding the multiset union of a and b; merging the
\* halves of _split_le(t, k) gives a tree with the multiset of t.
C25_MergeCorrect ==
    /\ \A a \in Subtrees(root), b \in Subtrees(root) :
          (\A n \in Nodes(a), m \in Nodes(b) : n.key < m.key) =>
              LET r == _merge(a, b)
              IN /\ Valid(r)
                 /\ \A key \in Keys : CountOf(r, key) = CountOf(a, key) + CountOf(b, key)
    /\ \A t \in Subtrees(root), k \in Boundaries :
          LET ab == _split_le(t, k)
              r == _merge(ab[1], ab[2])
          IN Valid(r) /\ MultisetOf(r) = MultisetOf(t)

C25_Witness ==
    /\ root # Nil /\ root.left # Nil /\ root.right # Nil
    /\ root.left.prio = root.right.prio
    /\ LET r == _merge(root.left, root.right)
       IN r.key = root.right.key /\ r.left = root.left /\ r.size = 2

\* C26: nodes are stable: after every insert each node that was in the tree
\* is still in it with the same key and priority and a cnt that is no
\* smaller; there is one node per key.
C26_NodesStable ==
    /\ [][\A n \in Nodes(root) :
             \E m \in Nodes(root') :
                m.key = n.key /\ m.prio = n.prio /\ m.cnt >= n.cnt]_vars
    /\ [](\A n \in Nodes(root), m \in Nodes(root) : n.key = m.key => n = m)

C26_Witness ==
    /\ Cardinality(Nodes(root)) = 2 /\ nInserts = 3
    /\ \E n \in Nodes(root) : n.cnt = 2 /\ n.prio < root.prio

\* C27: the tree is a max-heap on priorities: no child has a larger prio than
\* its parent; a merge of two roots of equal priority puts the right-hand
\* root on top, so a right child's prio is smaller than its parent's.
C27_MaxHeap ==
    /\ \A n \in Nodes(root) :
          /\ n.left # Nil => n.left.prio <= n.prio
          /\ n.right # Nil => n.right.prio < n.prio
    /\ \A a \in Nodes(root), b \in Nodes(root) :
          (a.prio = b.prio /\ \A n \in Nodes(a), m \in Nodes(b) : n.key < m.key)
             => LET r == _merge(a, b)
                IN r.key = b.key /\ r.prio = b.prio

C27_Witness ==
    /\ Cardinality(Nodes(root)) = 3
    /\ root.left # Nil /\ root.left.prio = root.prio
    /\ root.left.left # Nil /\ root.left.left.prio = root.prio

\* C20: the query is one top-down descent without backtracking: the nodes
\* visited so far form a downward path that starts at the root and continues
\* at cur, no node is on it twice, and kept never decreases while the loop runs.
C20_SingleDescent ==
    /\ [](q.pc \in {"loop", "return"} =>
            /\ IsPathFrom(root, q.path, 1)
            /\ \A i \in 1..Len(q.path), j \in 1..Len(q.path) :
                  i # j => q.path[i] # q.path[j]
            /\ (q.pc = "loop" /\ q.cur # Nil) =>
                  IsPathFrom(root, Append(q.path, q.cur.key), 1))
    /\ [][q.pc = "loop" => q'.kept >= q.kept]_vars

C20_Witness ==
    /\ q.pc = "return" /\ Len(q.path) >= 2
    /\ q.path[2] > q.path[1]
    /\ q.kept >= 2

\* C21: a loop step that finds left_sum > remaining moves cur to the left
\* child and changes neither kept nor remaining; the node it leaves and that
\* node's right subtree add nothing: what the call returns is at most kept
\* plus the size of the left subtree.
C21_LeftDescentFrame ==
    /\ [][(q.pc = "loop" /\ q.cur # Nil /\ SumOf(q.cur.left) > q.remaining)
          => (/\ q'.pc = "loop"
              /\ q'.cur = q.cur.left
              /\ q'.kept = q.kept
              /\ q'.remaining = q.remaining)]_vars
    /\ []((q.pc = "loop" /\ q.cur # Nil /\ SumOf(q.cur.left) > q.remaining)
          => QueryRun([pc |-> "loop", cur |-> q.cur, kept |-> q.kept,
                       remaining |-> q.remaining]).kept
                <= q.kept + SizeOf(q.cur.left))

C21_Witness ==
    /\ q.pc = "loop" /\ Len(q.path) = 1
    /\ q.cur # Nil /\ q.cur.key < q.path[1] /\ q.cur.key > 0
    /\ q.kept = 0 /\ q.remaining = q.cap /\ q.cap >= q.cur.key

\* C22: once the left subtree is committed, take = min(cnt, remaining // key)
\* copies of a positive key are added to kept (none of a key <= 0, where the
\* loop stops); with take < cnt the loop stops at this node and kept is what
\* the call returns, and only with take = cnt does it go on at the right child.
C22_TakeThenStopOrRight ==
    /\ [][(q.pc = "loop" /\ q.cur # Nil /\ SumOf(q.cur.left) <= q.remaining)
          => LET remaining1 == q.remaining - SumOf(q.cur.left)
                 kept1 == q.kept + SizeOf(q.cur.left)
                 can_take == remaining1 \div q.cur.key
                 take == IF q.cur.key <= 0 THEN 0
                         ELSE IF can_take < q.cur.cnt THEN can_take
                         ELSE q.cur.cnt
             IN /\ q'.kept = kept1 + take
                /\ q'.remaining = remaining1 - take * q.cur.key
                /\ IF take = q.cur.cnt
                   THEN q'.pc = "loop" /\ q'.cur = q.cur.right
                   ELSE q'.pc = "return" /\ q'.cur = q.cur]_vars
    /\ [][q.pc = "return" => (q'.pc = "idle" /\ q'.result = q.kept)]_vars

C22_Witness ==
    /\ q.pc = "return" /\ q.cur # Nil
    /\ q.cur.cnt >= 2 /\ q.cur.right # Nil
    /\ q.kept = SizeOf(q.cur.left) + 1

\* C28: the query is read-only: no step of a call changes the tree or the
\* count of values drawn from the generator, and a call that stands at its
\* return holds the value the same query returns on the tree of that moment.
C28_QueryReadOnly ==
    /\ [][(q.pc # "idle" \/ q'.pc # "idle")
          => (root' = root /\ rndDraws' = rndDraws /\ inserted' = inserted)]_vars
    /\ [](q.pc = "return" => q.kept = max_count_within_sum(root, q.cap))

C28_Witness ==
    /\ q.pc = "return" /\ Len(q.path) >= 2 /\ q.kept >= 1
    /\ rndDraws = 3

\* C29: the query never over-counts.  With non-negative keys (zeros allowed)
\* and cap >= 0 the returned k is between 0 and the root's size and the k
\* smallest elements sum to at most cap; while a call runs, remaining is >= 0
\* and cap - remaining is the sum of the kept smallest elements.
C29_NeverOverCounts ==
    AllNonNegative(inserted) =>
        LET asc == Ascending(inserted)
        IN /\ \A cap \in 0..MaxCap :
                 LET k == max_count_within_sum(root, cap)
                 IN 0 <= k /\ k <= SizeOf(root) /\ PrefixSum(asc, k) <= cap
           /\ (q.pc \in {"loop", "return"} /\ q.cap >= 0) =>
                 /\ q.remaining >= 0
                 /\ 0 <= q.kept /\ q.kept <= SizeOf(root)
                 /\ q.cap - q.remaining = PrefixSum(asc, q.kept)

C29_Witness ==
    /\ AllNonNegative(inserted) /\ inserted[0] >= 1
    /\ q.pc = "return" /\ q.cap >= 0
    /\ q.kept >= 2 /\ q.kept < SizeOf(root)

----------------------------------------------------------------------------
(* Properties of two treaps (specification SpecPair) *)

\* C3: two treaps that hold the same multiset (here of non-negative keys,
\* the keys the structure is meant for), whatever their priorities, insertion
\* orders and shapes, return the same value for every cap.
C3_ShapeIndependent ==
    (insertedB = inserted /\ AllNonNegative(inserted)) =>
        \A cap \in Caps :
            max_count_within_sum(root, cap) = max_count_within_sum(rootB, cap)

----------------------------------------------------------------------------
(* Properties of the driver (specification SpecDriver) *)

\* C10: in the first call on a fresh instance, with positive item values,
\* the entry for every index i is i - k, k being the length of the longest
\* ascending prefix of cartItems[0..i-1] whose sum is <= budget - cartItems[i].
C10_FreshCallAnswers ==
    (d.calls = 1 /\ \A j \in 1..Len(d.cartItems) : d.cartItems[j] > 0) =>
        /\ \A j \in 1..Len(d.ans) :
              d.ans[j] = (j - 1) - Reference(MsOfSeq(SubSeq(d.cartItems, 1, j - 1)),
                                             d.budget - d.cartItems[j])
        /\ AtReturn => Len(d.ans) = Len(d.cartItems)

C10_Witness ==
    /\ AtReturn /\ d.calls = 1
    /\ Len(d.cartItems) = 3
    /\ d.ans[2] = 0 /\ d.ans[3] = 1

\* C11: the answer for index i is computed against the multiset of
\* cartItems[0..i-1] only: when the entry for i has been appended the treap
\* holds exactly the first i items, item i is not yet in it, and when index
\* i is about to be processed all of the first i items are in it, whatever
\* the sign of budget - cartItems[i] was.
C11_AnswerAgainstPrefixOnly ==
    /\ d.pc = "insert" =>
          /\ Len(d.ans) = d.i + 1
          /\ MultisetOf(root) = MsOfSeq(SubSeq(d.cartItems, 1, d.i))
    /\ d.pc = "loop" =>
          /\ Len(d.ans) = d.i
          /\ \A k \in Keys :
                CountOf(root, k) >= MsOfSeq(SubSeq(d.cartItems, 1, d.i))[k]

\* C12: whenever budget - cartItems[i] is negative the entry appended for
\* index i is i, and the query on the treap of that moment with that negative
\* capacity returns 0, so the query path would give the same entry.
C12_NegativeCapacityEntry ==
    (d.pc = "insert" /\ d.budget - d.cartItems[d.i + 1] < 0) =>
        /\ d.ans[d.i + 1] = d.i
        /\ d.i - max_count_within_sum(root, d.budget - d.cartItems[d.i + 1]) = d.i

C12_Witness ==
    /\ d.pc = "insert" /\ d.budget - d.cartItems[d.i + 1] < 0
    /\ d.i >= 1 /\ d.ans[d.i + 1] = d.i
    /\ root # Nil /\ root.size >= 2

\* C13: the list a call returns depends on its two arguments only: at the
\* return statement ans is a list the same call returns on a fresh instance.
C13_NoStateCarried ==
    AtReturn => d.ans \in FreshCallResults(d.budget, d.cartItems)

\* C30: in every call, later calls on the same instance included, the list
\* has one entry per item and the entry for index i is between 0 and i: the
\* number of removals is never negative and never more than the number of
\* earlier items.
C30_AnswersInRange ==
    /\ \A j \in 1..Len(d.ans) : 0 <= d.ans[j] /\ d.ans[j] <= j - 1
    /\ AtReturn => Len(d.ans) = Len(d.cartItems)

====
